---- MODULE Spec2Model ----
(***************************************************************************)
(* The AWS service collection harness of prowler:                          *)
(*   AWSService.__threading_call__  (bounded fan-out over a thread pool),   *)
(*   AWSService.progress_decorator  (progress around a singular stage),     *)
(*   CloudFront.__init__            (list -> config -> tags pipeline).      *)
(*                                                                         *)
(* One behaviour is one construction of a service object.  Init chooses    *)
(* the entry point: CloudFront.__init__, or a direct use of                *)
(* __threading_call__ by a service with an arbitrary per-item callable.    *)
(* Exceptions are values of class Exception (the "generic error" of the    *)
(* remote calls); BaseException-only classes are not modelled.             *)
(***************************************************************************)
EXTENDS Integers, Sequences, FiniteSets, TLC

\* ---------------------------------------------------------------- bounds
\* Number of resource identifiers the remote service may hold.
MaxItems == 3
\* Size of the thread pool in the model.  The source sets MAX_WORKERS = 10;
\* the pool's logic does not depend on the value, and a pool smaller than
\* the item count is what exercises the bound on running callables.
PoolSize == 2
\* Listing pages returned by the paginator.
NumPages == 2

MAX_WORKERS == PoolSize

AllIds == <<"A", "B", "C", "D", "E", "F">>
Ids == {AllIds[i] : i \in 1..MaxItems}
IdIndex(id) == CHOOSE i \in 1..Len(AllIds) : AllIds[i] = id

\* Python's None: in a slot that otherwise holds a string, and in the slot
\* that otherwise holds a DefaultCacheConfigBehaviour (a record).
None == "None"
NoneConfig == [none |-> TRUE]

\* ------------------------------------------------------------- variables
VARIABLES
    entry,                 \* which constructor / caller drives the run
    live_display_enabled,  \* AWSService.live_display_enabled
    audit_resources,       \* TRUE iff provider.audit_resources is non-empty
    pc,                    \* position of the orchestrating thread
    stage,                 \* index in plan of the current fan-out
    plan,                  \* the fan-out calls the constructor makes, in order
    distributions,         \* CloudFront.distributions: id -> Distribution
    discovered,            \* ids present in the listing pages
    filter_result,         \* per id: what is_resource_filtered answered;
                           \* "unfiltered": listed, filter not consulted;
                           \* "none": never reached by the list stage
    list_error,            \* __list_distributions__ logged an error
    called,                \* the stage functions the constructor has called
    client_response,       \* how the remote answers get_distribution_config
                           \* for each id (fixed once the catalog is listed)
    pool,                  \* thread_pool: every work item submitted so far
    futures,               \* __threading_call__'s local list of futures
    yielded,               \* futures as_completed has already yielded
    progress_tasks,        \* tasks of task_progress_bar, in creation order
    task_id,               \* __threading_call__'s local task_id
    wrapped,               \* the call through progress_decorator's wrapper:
                           \* calls of func, func's outcome, wrapper's outcome
    error_log,             \* logger.error entries written by the per-item
                           \* callables and by __threading_call__
    listing                \* what the remote and the filter held for the list
                           \* stage: the resources in scope, those of the
                           \* failing page or item, those before the first
                           \* failure, whether anything failed

vars == <<entry, live_display_enabled, audit_resources, pc, stage, plan,
          distributions, discovered, filter_result, list_error, called,
          client_response, pool, futures, yielded, progress_tasks, task_id,
          wrapped, error_log, listing>>

\* ------------------------------------------------------ records and enums
\* class Distribution(BaseModel): the fields given at construction and the
\* defaults of the others (Optional without default is None).
Distribution(arn, id, origins, region) ==
    [arn |-> arn, id |-> id, region |-> region, origins |-> origins,
     logging_enabled |-> FALSE, default_cache_config |-> NoneConfig,
     geo_restriction_type |-> None, web_acl_id |-> "", tags |-> <<>>]

\* The item of a listing page for resource id: item["ARN"], item["Id"],
\* item["Origins"]["Items"].
ListedItem(id) ==
    [ARN |-> <<"arn:aws:cloudfront", id>>, Id |-> id,
     Origins |-> <<<<"origin", id>>>>]

\* The response of client.get_distribution_config(Id=id) when it succeeds.
DistributionConfig(id) ==
    [Logging |-> TRUE, RestrictionType |-> "whitelist",
     WebACLId |-> "acl-" \o id,
     DefaultCacheBehavior |->
        [realtime_log_config_arn |-> <<"rtlog", id>>,
         viewer_protocol_policy |-> "https-only",
         field_level_encryption_id |-> <<"fle", id>>]]

\* ------------------------------------------------------------ call binding
\* The parameters (after self) of the per-item callables.  "call" stands for
\* an arbitrary per-item callable of another service: def call(item, *a, **kw).
Parameters(call) ==
    CASE call = "__get_distribution_config__" -> <<"distribution_id", "client", "region">>
      [] call = "__list_tags_for_resource__" -> <<"distribution", "client", "region">>
      [] OTHER -> <<"item">>
Variadic(call) == call = "call"

\* Python's binding of  call(item, *args, **kwargs)  to the signature: every
\* parameter filled exactly once, no unknown keyword.  FALSE is a TypeError
\* raised before the body runs.
BindOK(call, nargs, kwnames) ==
    LET params == Parameters(call)
        npos == 1 + nargs
    IN  IF Variadic(call) THEN TRUE
        ELSE /\ npos <= Len(params)
             /\ kwnames = {params[i] : i \in (npos + 1)..Len(params)}

\* The two fan-outs of CloudFront.__init__: the iterator is the catalog and
\* (client, region) is handed over as ONE keyword named args.
CloudFrontPlan ==
    << [call |-> "__get_distribution_config__", nargs |-> 0, kwnames |-> {"args"}],
       [call |-> "__list_tags_for_resource__", nargs |-> 0, kwnames |-> {"args"}] >>

\* A direct use of __threading_call__(call, iterator, *args): an arbitrary
\* per-item callable, or one of CloudFront's with (client, region) positional.
DirectPlans ==
    { << [call |-> "call", nargs |-> 0, kwnames |-> {}] >>,
      << [call |-> "__get_distribution_config__", nargs |-> 2, kwnames |-> {}] >>,
      << [call |-> "__list_tags_for_resource__", nargs |-> 2, kwnames |-> {}] >>,
      << [call |-> "__get_distribution_config__", nargs |-> 2, kwnames |-> {}],
         [call |-> "__list_tags_for_resource__", nargs |-> 2, kwnames |-> {}] >> }

\* --------------------------------------------------------------- helpers
Range(s) == {s[i] : i \in DOMAIN s}

\* The ids of S in listing order.  The remote lists resources in the order of
\* AllIds, so this is also the insertion order of a dict with these keys.
RECURSIVE SetToSeq(_)
SetToSeq(S) ==
    IF S = {} THEN <<>>
    ELSE LET m == CHOOSE x \in S : \A y \in S : IdIndex(x) <= IdIndex(y)
         IN  <<m>> \o SetToSeq(S \ {m})

\* d[id] = rec  on a dict.
DictSet(d, id, rec) ==
    [k \in (DOMAIN d) \cup {id} |-> IF k = id THEN rec ELSE d[k]]

EmptyDict == [k \in {} |-> None]

\* for item in items, where items is a dict: its keys (each a str).
Iterate(d) == SetToSeq(DOMAIN d)

\* The attributes of a work item: a dict key is a str and has none of the
\* attributes of a Distribution.
AttributesOf(item) == IF item \in Ids THEN {} ELSE DOMAIN item

ClientResponses == {"ok", "error", "bad_geo", "bad_cache"}

\* --------------------------------------------------------- the list stage
\* Mutant: every listed resource is inserted, whatever the filter answered.
InScope_All(answer) == TRUE

\* line 37-39: not self.audit_resources or is_resource_filtered(ARN, ...).
\* answer is what is_resource_filtered returns when it is called.
InScope(answer) == (~audit_resources) \/ answer = "true"

\* Mutant: an except clause that names one exception class only.
ListExcept_Narrow(error) == error = "KeyError"

\* except Exception as error (cloudfront_service.py line 51): logs, returns.
ListExcept(error) == error \in {"Error", "TypeError", "AttributeError", "KeyError", "ValueError"}

\* lines 36-49: the items of one page, until one raises.
\* acc = [distributions, filter_result, raised]
RECURSIVE ForItems(_, _, _)
ForItems(items, ans, acc) ==
    IF items = <<>> \/ acc.raised # None THEN acc
    ELSE LET item == ListedItem(Head(items))
             consulted == audit_resources
             answer == IF consulted THEN ans[item.Id] ELSE "unfiltered"
         IN  IF consulted /\ answer = "raise"
             THEN [acc EXCEPT !.raised = "Error",
                              !.filter_result[item.Id] = "raise"]
             ELSE ForItems(Tail(items), ans,
                    [acc EXCEPT
                       !.filter_result[item.Id] = answer,
                       !.distributions =
                          IF InScope(answer)
                          THEN DictSet(@, item.Id,
                                 Distribution(item.ARN, item.Id, item.Origins, "region"))
                          ELSE @])

\* lines 33-35: the pages of the paginator; fetching page fail_page raises
\* (fail_page > Len(pages): no page fails).
RECURSIVE ForPages(_, _, _, _, _)
ForPages(pages, p, fail_page, ans, acc) ==
    IF p > Len(pages) \/ acc.raised # None THEN acc
    ELSE IF p = fail_page THEN [acc EXCEPT !.raised = "Error"]
    ELSE ForPages(pages, p + 1, fail_page, ans,
                  IF pages[p].has_items
                  THEN ForItems(pages[p].Items, ans, acc)
                  ELSE acc)

\* The body of __list_distributions__ (lines 31-54): the catalog it leaves,
\* what the filter answered, whether an error was logged, and the exception
\* that leaves the function (None: it returns).
ListDistributionsBody(pages, fail_page, ans) ==
    LET acc == ForPages(pages, 1, fail_page, ans,
                 [distributions |-> distributions,
                  filter_result |-> filter_result,
                  raised |-> None])
    IN  [distributions |-> acc.distributions,
         filter_result |-> acc.filter_result,
         logged |-> acc.raised # None /\ ListExcept(acc.raised),
         raised |-> IF acc.raised # None /\ ~ListExcept(acc.raised)
                    THEN acc.raised ELSE None]

\* The listings the remote may return: the ids of found, in order, cut into
\* NumPages consecutive pages; a page without resources has no "Items" key.
Listings(found) ==
    LET s == SetToSeq(found)
        Cuts == {c \in [0..NumPages -> 0..Len(s)] :
                    /\ c[0] = 0 /\ c[NumPages] = Len(s)
                    /\ \A p \in 1..NumPages : c[p - 1] <= c[p]}
    IN  {[p \in 1..NumPages |->
            [has_items |-> c[p] > c[p - 1],
             Items |-> SubSeq(s, c[p - 1] + 1, c[p])]] : c \in Cuts}

\* What the remote and the filter hold for one run of the list stage, read
\* off the inputs: the page whose fetch raises (line 33) and the resources
\* for which is_resource_filtered raises (line 37-39) fail; a resource is in
\* scope when there is no audit filter or the filter accepts it.
Remote(pages, fail_page, ans) ==
    LET found == UNION {Range(pages[p].Items) : p \in DOMAIN pages}
        s == SetToSeq(found)
        raising == {id \in found : audit_resources /\ ans[id] = "raise"}
        page_pos == IF fail_page \in DOMAIN pages
                    THEN 1 + Cardinality(UNION {Range(pages[q].Items) :
                                                  q \in 1..(fail_page - 1)})
                    ELSE Len(s) + 1
        first == IF \E k \in 1..Len(s) : k < page_pos /\ s[k] \in raising
                 THEN CHOOSE k \in 1..Len(s) :
                         /\ s[k] \in raising
                         /\ \A j \in 1..(k - 1) : s[j] \notin raising
                 ELSE page_pos
    IN  [in_scope |-> {id \in found : (~audit_resources) \/ ans[id] = "true"},
         failing |-> raising \cup (IF fail_page \in DOMAIN pages
                                   THEN Range(pages[fail_page].Items) ELSE {}),
         before |-> {s[k] : k \in 1..(first - 1)},
         failed |-> fail_page \in DOMAIN pages \/ first <= Len(s)]

\* ------------------------------------------------------ progress observer
\* Mutant: the task is added without its total.
AddTask_NoTotal(tasks, description, total) ==
    Append(tasks, [description |-> description, total |-> 0, completed |-> 0])

\* task_progress_bar.add_task(description, total=total): the new task list.
AddTask(tasks, description, total) ==
    Append(tasks, [description |-> description, total |-> total, completed |-> 0])

\* task_progress_bar.update(task_id, advance=1).
Update(tasks, id) == [tasks EXCEPT ![id].completed = @ + 1]

\* ---------------------------------------------------- progress_decorator
\* The outcome of a function call: it returned a value or raised.
Returns(value) == [kind |-> "return", value |-> value]
Raises(exception) == [kind |-> "raise", value |-> exception]
NotCalled == [kind |-> "none", value |-> None]

\* What an arbitrary decorated function may do.
FuncOutcomes == {Returns(None), Returns("result"), Raises("Error")}

\* Mutant: with progress enabled the wrapper swallows func's exception.
WrapperOutcome_Swallow(outcome) ==
    IF live_display_enabled /\ outcome.kind = "raise" THEN Returns(None) ELSE outcome

\* wrapper (service.py 137-143): result = func(...); return result.  An
\* exception of func leaves the wrapper as it is.
WrapperOutcome(outcome) == outcome

\* wrapper lines 139-140: the update after func, reached when func returned.
\* The wrapper's task is the last one added.
WrapperUpdate(tasks, outcome) ==
    IF live_display_enabled /\ outcome.kind = "return"
    THEN Update(tasks, Len(tasks))
    ELSE tasks

\* --------------------------------------------------- the per-item callables
\* Mutant: a failed remote call drops the entry from the catalog.
GetDistributionConfig_DropOnError(d, distribution_id, response) ==
    IF response = "error"
    THEN [k \in (DOMAIN d) \ {distribution_id} |-> d[k]]
    ELSE [d EXCEPT ![distribution_id].logging_enabled = TRUE]

\* Mutant: the values are written to the first entry of the catalog, not to
\* the entry of distribution_id.
GetDistributionConfig_FirstEntry(d, distribution_id, response) ==
    IF response = "ok" /\ DOMAIN d # {}
    THEN [d EXCEPT ![Iterate(d)[1]].logging_enabled = TRUE]
    ELSE d

\* Mutant: the record is written only when every value could be built.
GetDistributionConfig_Atomic(d, distribution_id, response) ==
    IF response # "ok" \/ distribution_id \notin DOMAIN d THEN d
    ELSE LET cfg == DistributionConfig(distribution_id)
         IN  [d EXCEPT ![distribution_id].logging_enabled = cfg.Logging,
                       ![distribution_id].geo_restriction_type = cfg.RestrictionType,
                       ![distribution_id].web_acl_id = cfg.WebACLId,
                       ![distribution_id].default_cache_config =
                           cfg.DefaultCacheBehavior]

\* __get_distribution_config__ (lines 56-95) for one id, given the remote's
\* answer: every exception is caught and logged inside, so the catalog is the
\* only result.  "error": the remote call raises (or the response lacks
\* "Logging"), before any write.  "bad_geo": RestrictionType is no value of
\* GeoRestrictionType, so the second write raises after the first.
\* "bad_cache": the response lacks ViewerProtocolPolicy, so
\* ViewerProtocolPolicy(None) raises after the first three writes.
GetDistributionConfig(d, distribution_id, response) ==
    IF response = "error" \/ distribution_id \notin DOMAIN d THEN d
    ELSE LET cfg == DistributionConfig(distribution_id)
             d0 == [d EXCEPT ![distribution_id].logging_enabled = cfg.Logging]
             d1 == [d0 EXCEPT ![distribution_id].geo_restriction_type = cfg.RestrictionType,
                              ![distribution_id].web_acl_id = cfg.WebACLId]
         IN  CASE response = "bad_geo" -> d0
               [] response = "bad_cache" -> d1
               [] OTHER -> [d1 EXCEPT ![distribution_id].default_cache_config =
                                         cfg.DefaultCacheBehavior]

\* __get_distribution_config__ lines 92-95: logger.error in its except.
GetDistributionConfigLogs(d, distribution_id, response) ==
    response # "ok" \/ distribution_id \notin DOMAIN d

\* __list_tags_for_resource__ lines 102-105: logger.error in its except.
ListTagsForResourceLogs(distribution) == "arn" \notin AttributesOf(distribution)

\* __list_tags_for_resource__ (lines 97-105): distribution.arn is read first;
\* on an item without that attribute the AttributeError is caught and logged.
ListTagsForResource(d, distribution) ==
    IF "arn" \notin AttributesOf(distribution) THEN d
    ELSE [d EXCEPT ![distribution.id].tags = <<"tags", distribution.id>>]

\* What the arbitrary callable writes for its item when it returns.
CallWrite(d, item) ==
    IF item \in DOMAIN d THEN [d EXCEPT ![item].tags = <<"done", item>>] ELSE d

\* The outcomes of  call(item, *args, **kwargs)  in a worker: the catalog it
\* leaves and the exception that leaves the callable (None: it returned).
Invoke(st, item, d) ==
    IF ~BindOK(st.call, st.nargs, st.kwnames)
    THEN {[distributions |-> d, exception |-> "TypeError", logged |-> FALSE]}
    ELSE CASE st.call = "__get_distribution_config__" ->
                {[distributions |-> GetDistributionConfig(d, item, client_response[item]),
                  exception |-> None,
                  logged |-> GetDistributionConfigLogs(d, item, client_response[item])]}
           [] st.call = "__list_tags_for_resource__" ->
                {[distributions |-> ListTagsForResource(d, item), exception |-> None,
                  logged |-> ListTagsForResourceLogs(item)]}
           [] OTHER ->
                {[distributions |-> CallWrite(d, item), exception |-> None,
                  logged |-> FALSE],
                 [distributions |-> d, exception |-> "Error", logged |-> FALSE]}

\* ------------------------------------------------------------ thread pool
\* Mutant: the submissions happen only under live_display_enabled.
Items_OnlyWithProgress ==
    IF live_display_enabled THEN Iterate(distributions) ELSE <<>>

\* Mutant: a later fan-out takes only the entries the earlier stage enriched.
Items_OnlyEnriched ==
    SelectSeq(Iterate(distributions),
              LAMBDA id : stage = 1 \/ distributions[id].logging_enabled)

\* items = iterator (line 72): the work items of the current call.
Items == Iterate(distributions)

Running == {i \in DOMAIN pool : pool[i].state = "RUNNING"}
Pending == {i \in DOMAIN pool : pool[i].state = "PENDING"}

\* Mutant: a pool that starts a thread per work item.
WorkerAvailable_Unbounded == TRUE

\* Mutant: a worker thread that has run one work item never takes another.
WorkerAvailable_NoReuse ==
    Cardinality({i \in DOMAIN pool : pool[i].state # "PENDING"}) < MAX_WORKERS

\* ThreadPoolExecutor(max_workers=MAX_WORKERS): a work item starts only on a
\* worker thread that is not running another one.
WorkerAvailable == Cardinality(Running) < MAX_WORKERS

\* Mutant: an except clause that names one exception class only.
ThreadingExcept_Narrow(exception) == exception = "KeyError"

\* except Exception (service.py line 110): pass.
ThreadingExcept(exception) ==
    exception \in {"Error", "TypeError", "AttributeError", "KeyError", "ValueError"}

\* Mutant: the wait ends at the first completed future.
BarrierSatisfied_FirstCompleted == yielded # {} \/ futures = <<>>

\* Mutant: the futures are not waited for at all.
BarrierSatisfied_NoWait == TRUE

\* Mutant: the except clause writes an error entry for the item.
ExceptBody_Logs(log, s, item) ==
    log \cup {[by |-> "__threading_call__", stage |-> s, item |-> item]}

\* The body of the except clause (service.py 110-112): pass.
ExceptBody(log, s, item) == log

\* Mutant: the wait also needs at least one yielded future.
BarrierSatisfied_AtLeastOne == yielded # {} /\ yielded = Range(futures)

\* for future in as_completed(futures) ends when every future was yielded.
BarrierSatisfied == yielded = Range(futures)

\* ------------------------------------------------------------------- Init
Init ==
    /\ entry \in {"CloudFront", "direct", "decorated"}
    /\ wrapped = [calls |-> 0, func |-> NotCalled, outcome |-> NotCalled]
    /\ error_log = {}
    /\ listing = [in_scope |-> {}, failing |-> {}, before |-> {}, failed |-> FALSE]
    /\ live_display_enabled \in BOOLEAN
    /\ pool = <<>>
    /\ futures = <<>>
    /\ yielded = {}
    /\ progress_tasks = <<>>
    /\ task_id = 0
    /\ list_error = FALSE
    /\ called = <<>>
    /\ filter_result = [i \in Ids |-> "none"]
    /\ IF entry = "CloudFront"
       THEN /\ audit_resources \in BOOLEAN
            /\ pc = "wrapper"
            /\ stage = 0
            /\ plan = CloudFrontPlan
            /\ distributions = EmptyDict
            /\ discovered = {}
            /\ client_response = [i \in Ids |-> "ok"]
       ELSE IF entry = "decorated"
       THEN /\ audit_resources = FALSE
            /\ pc = "wrapper"
            /\ stage = 0
            /\ plan = <<>>
            /\ distributions = EmptyDict
            /\ discovered = {}
            /\ client_response = [i \in Ids |-> "ok"]
       ELSE /\ audit_resources = FALSE
            /\ pc = "threading_call"
            /\ stage = 1
            /\ plan \in DirectPlans
            /\ discovered \in {Range(SubSeq(AllIds, 1, n)) : n \in 0..MaxItems}
            /\ distributions =
                 [i \in discovered |->
                    Distribution(ListedItem(i).ARN, i, ListedItem(i).Origins, "region")]
            /\ client_response \in
                 {r \in [Ids -> ClientResponses] :
                     \A i \in Ids :
                        /\ (i \notin discovered \/ plan[1].call # "__get_distribution_config__")
                              => r[i] = "ok"
                        /\ Len(plan) > 1 => r[i] \in {"ok", "error"}}

\* ---------------------------------------------------------------- actions
\* progress_decorator's wrapper up to the call of func (service.py 125-135).
WrapperBegin ==
    /\ pc = "wrapper"
    /\ progress_tasks' =
          IF live_display_enabled
          THEN AddTask(progress_tasks,
                       IF entry = "CloudFront" THEN "List Distributions" ELSE "Func", 1)
          ELSE progress_tasks
    /\ pc' = IF entry = "CloudFront" THEN "list" ELSE "func"
    /\ UNCHANGED <<entry, live_display_enabled, audit_resources, stage, plan,
                   distributions, discovered, filter_result, list_error, called,
                   client_response, pool, futures, yielded, task_id,
                   wrapped, error_log, listing>>

\* An arbitrary decorated function runs and the wrapper ends (137-143).
WrappedFunc ==
    /\ pc = "func"
    /\ \E outcome \in FuncOutcomes :
          /\ wrapped' = [calls |-> wrapped.calls + 1, func |-> outcome,
                         outcome |-> WrapperOutcome(outcome)]
          /\ progress_tasks' = WrapperUpdate(progress_tasks, outcome)
    /\ pc' = "done"
    /\ called' = Append(called, "func")
    /\ UNCHANGED <<entry, live_display_enabled, audit_resources, stage, plan,
                   distributions, discovered, filter_result, list_error,
                   client_response, pool, futures, yielded, task_id, error_log, listing>>

\* self.__list_distributions__(client, region): the decorated function runs
\* and the wrapper ends (service.py 137-143 around cloudfront_service.py 30-54).
ListDistributions ==
    /\ pc = "list"
    /\ \E found \in SUBSET Ids :
       \E pages \in Listings(found) :
       \E fail_page \in 1..(NumPages + 1) :
       \E ans \in [found -> {"true", "false", "raise"}] :
          LET r == ListDistributionsBody(pages, fail_page, ans)
              outcome == IF r.raised # None THEN Raises(r.raised) ELSE Returns(None)
          IN  /\ distributions' = r.distributions
              /\ wrapped' = [calls |-> wrapped.calls + 1, func |-> outcome,
                             outcome |-> WrapperOutcome(outcome)]
              /\ progress_tasks' = WrapperUpdate(progress_tasks, outcome)
              /\ filter_result' = r.filter_result
              /\ list_error' = r.logged
              /\ discovered' = found
              /\ listing' = Remote(pages, fail_page, ans)
              /\ called' = Append(called, "__list_distributions__")
              \* what the remote would answer to get_distribution_config: it
              \* fails for no resource of the catalog or for one of them
              /\ \E failing \in {{}} \cup {{id} : id \in DOMAIN r.distributions} :
                    client_response' =
                       [i \in Ids |-> IF i \in failing THEN "error" ELSE "ok"]
              /\ IF WrapperOutcome(outcome).kind = "raise"
                 THEN /\ pc' = "raised"
                      /\ stage' = stage
                 ELSE /\ pc' = "threading_call"
                      /\ stage' = 1
    /\ UNCHANGED <<entry, live_display_enabled, audit_resources, plan, pool,
                   futures, yielded, task_id, error_log>>

\* __threading_call__ up to the submissions (service.py 70-96).
ThreadingCallBegin ==
    /\ pc = "threading_call"
    /\ LET items == Items
           item_count == Len(items)
       IN  /\ IF live_display_enabled
              THEN /\ progress_tasks' = AddTask(progress_tasks, plan[stage].call, item_count)
                   /\ task_id' = Len(progress_tasks) + 1
              ELSE UNCHANGED <<progress_tasks, task_id>>
           /\ pc' = IF item_count = 0 THEN "as_completed" ELSE "submit"
    /\ futures' = <<>>
    /\ yielded' = {}
    /\ called' = Append(called, plan[stage].call)
    /\ UNCHANGED <<entry, live_display_enabled, audit_resources, stage, plan,
                   distributions, discovered, filter_result, list_error,
                   client_response, pool, wrapped, error_log, listing>>

\* One self.thread_pool.submit(call, item, *args, **kwargs) (lines 99-101).
Submit ==
    /\ pc = "submit"
    /\ LET items == Items
           k == Len(futures) + 1
       IN  /\ k <= Len(items)
           /\ pool' = Append(pool, [stage |-> stage, item |-> items[k],
                                    state |-> "PENDING", exception |-> None])
           /\ futures' = Append(futures, Len(pool) + 1)
           /\ pc' = IF k = Len(items) THEN "as_completed" ELSE "submit"
    /\ UNCHANGED <<entry, live_display_enabled, audit_resources, stage, plan,
                   distributions, discovered, filter_result, list_error, called,
                   client_response, yielded, progress_tasks, task_id,
                   wrapped, error_log, listing>>

\* A worker thread takes the oldest queued work item and calls the callable.
WorkerRun(i) ==
    /\ i \in Pending
    /\ \A j \in Pending : i <= j
    /\ WorkerAvailable
    /\ pool' = [pool EXCEPT ![i].state = "RUNNING"]
    /\ UNCHANGED <<entry, live_display_enabled, audit_resources, pc, stage, plan,
                   distributions, discovered, filter_result, list_error, called,
                   client_response, futures, yielded, progress_tasks, task_id,
                   wrapped, error_log, listing>>

\* The callable finishes in its worker: the future holds its result or its
\* exception.
WorkerFinish(i) ==
    /\ i \in Running
    /\ \E r \in Invoke(plan[pool[i].stage], pool[i].item, distributions) :
          /\ distributions' = r.distributions
          /\ pool' = [pool EXCEPT ![i].state = "FINISHED",
                                  ![i].exception = r.exception]
          /\ error_log' =
                IF r.logged
                THEN error_log \cup {[by |-> plan[pool[i].stage].call,
                                      stage |-> pool[i].stage, item |-> pool[i].item]}
                ELSE error_log
    /\ UNCHANGED <<entry, live_display_enabled, audit_resources, pc, stage, plan,
                   discovered, filter_result, list_error, called, client_response,
                   futures, yielded, progress_tasks, task_id, wrapped, listing>>

\* One round of  for future in as_completed(futures)  (lines 104-112).
AsCompleted(f) ==
    /\ pc = "as_completed"
    /\ f \in Range(futures) \ yielded
    /\ pool[f].state = "FINISHED"
    /\ yielded' = yielded \cup {f}
    /\ IF pool[f].exception = None
       THEN /\ progress_tasks' = IF live_display_enabled
                                 THEN Update(progress_tasks, task_id)
                                 ELSE progress_tasks
            /\ pc' = pc
       ELSE /\ progress_tasks' = progress_tasks
            /\ pc' = IF ThreadingExcept(pool[f].exception) THEN pc ELSE "raised"
    /\ error_log' = IF pool[f].exception # None /\ ThreadingExcept(pool[f].exception)
                    THEN ExceptBody(error_log, pool[f].stage, pool[f].item)
                    ELSE error_log
    /\ UNCHANGED <<entry, live_display_enabled, audit_resources, stage, plan,
                   distributions, discovered, filter_result, list_error, called,
                   client_response, pool, futures, task_id, wrapped, listing>>

\* __threading_call__ returns; the constructor goes on to its next call.
ThreadingCallReturn ==
    /\ pc = "as_completed"
    /\ BarrierSatisfied
    /\ IF stage < Len(plan)
       THEN /\ stage' = stage + 1
            /\ pc' = "threading_call"
       ELSE /\ stage' = stage
            /\ pc' = "done"
    /\ UNCHANGED <<entry, live_display_enabled, audit_resources, plan,
                   distributions, discovered, filter_result, list_error, called,
                   client_response, pool, futures, yielded, progress_tasks, task_id,
                   wrapped, error_log, listing>>

Next ==
    \/ WrapperBegin
    \/ WrappedFunc
    \/ ListDistributions
    \/ ThreadingCallBegin
    \/ Submit
    \/ \E i \in DOMAIN pool : WorkerRun(i)
    \/ \E i \in DOMAIN pool : WorkerFinish(i)
    \/ \E f \in DOMAIN pool : AsCompleted(f)
    \/ ThreadingCallReturn

Spec == Init /\ [][Next]_vars

\* The steps of the thread that runs __init__ and __threading_call__.
Orchestrator ==
    \/ WrapperBegin
    \/ WrappedFunc
    \/ ListDistributions
    \/ ThreadingCallBegin
    \/ Submit
    \/ \E f \in DOMAIN pool : AsCompleted(f)
    \/ ThreadingCallReturn

\* The steps of the worker threads of self.thread_pool.
Workers == \E i \in DOMAIN pool : WorkerRun(i) \/ WorkerFinish(i)

\* The calling thread keeps running, and the pool's threads keep running:
\* a pending work item is started when a worker is free, and every started
\* callable finishes.
FairSpec == Spec /\ WF_vars(Orchestrator) /\ WF_vars(Workers)

\* ======================================================================
\* Properties
\* ======================================================================
\* The fan-out call number s of the plan has returned.
Returned(s) == s \in 1..Len(plan) /\ (s < stage \/ (s = stage /\ pc = "done"))

\* The work items submitted by fan-out s for item.
StageEntries(s, item) ==
    {i \in DOMAIN pool : pool[i].stage = s /\ pool[i].item = item}

\* The work items of fan-out s whose callable raised.
Failed(s) == {i \in DOMAIN pool : pool[i].stage = s /\ pool[i].exception # None}

\* The record the list stage builds for id.
ListRecord(id) ==
    Distribution(ListedItem(id).ARN, id, ListedItem(id).Origins, "region")

\* What one invocation of the callable of st does to the record of its own
\* item j, given only that invocation's outcome.
OwnEffect(st, j, rec, exception) ==
    LET single == [k \in {j} |-> rec]
    IN  IF exception # None THEN rec
        ELSE CASE st.call = "__get_distribution_config__" ->
                    GetDistributionConfig(single, j, client_response[j])[j]
               [] st.call = "__list_tags_for_resource__" ->
                    ListTagsForResource(single, j)[j]
               [] OTHER -> CallWrite(single, j)[j]

\* The record of j after the fan-outs 1..s, from j's own outcomes alone.
RECURSIVE ExpectedAfter(_, _)
ExpectedAfter(j, s) ==
    IF s = 0 THEN ListRecord(j)
    ELSE LET e == CHOOSE i \in StageEntries(s, j) : TRUE
         IN  OwnEffect(plan[s], j, ExpectedAfter(j, s - 1), pool[e].exception)

\* C1: when __threading_call__ over a non-empty item sequence has returned,
\* the callable was invoked exactly once for every item and every one of
\* those invocations has finished; nothing else was invoked.
C1_InvokedExactlyOnce ==
    \A s \in 1..Len(plan) :
        (Returned(s) /\ DOMAIN distributions # {}) =>
            /\ \A item \in DOMAIN distributions :
                  /\ Cardinality(StageEntries(s, item)) = 1
                  /\ \A i \in StageEntries(s, item) : pool[i].state = "FINISHED"
            /\ \A i \in DOMAIN pool :
                  pool[i].stage = s => pool[i].item \in DOMAIN distributions

C1_Witness ==
    /\ pc = "done" /\ entry = "direct" /\ plan[1].call = "call"
    /\ Cardinality(DOMAIN distributions) = MaxItems
    /\ \E i, j \in DOMAIN pool :
          pool[i].exception = "Error" /\ pool[j].exception = None

\* C2: when the callable raised for some item, no exception leaves
\* __threading_call__, no item is submitted twice, every other invocation
\* still runs to its end, and at the end every record is what its own item's
\* outcomes make it, whatever happened to the other items.
C2_FailureIsolation ==
    /\ pc # "raised"
    /\ \A s \in 1..Len(plan) :
          (Returned(s) /\ Failed(s) # {}) =>
              \A item \in DOMAIN distributions :
                 /\ Cardinality(StageEntries(s, item)) <= 1
                 /\ \E i \in StageEntries(s, item) : pool[i].state = "FINISHED"
    /\ (pc = "done" /\ \E s \in 1..Len(plan) : Failed(s) # {}) =>
          \A j \in DOMAIN distributions :
             distributions[j] = ExpectedAfter(j, Len(plan))

C2_Witness ==
    /\ pc = "done" /\ entry = "direct" /\ plan[1].call = "call"
    /\ \E i, j \in DOMAIN pool :
          /\ pool[i].exception = "Error"
          /\ pool[j].exception = None
          /\ distributions[pool[j].item].tags = <<"done", pool[j].item>>
          /\ distributions[pool[i].item] = ListRecord(pool[i].item)

\* The progress task of fan-out s: the list stage's task comes first.
TaskOf(s) == IF entry = "CloudFront" THEN s + 1 ELSE s

\* C3: with progress enabled, when a fan-out over n items has returned its
\* task has been advanced n times (completed = total = n), however many of
\* the callables raised.
C3_ProgressAdvancedForEveryItem ==
    \A s \in 1..Len(plan) :
        (Returned(s) /\ live_display_enabled) =>
            /\ progress_tasks[TaskOf(s)].total = Cardinality(DOMAIN distributions)
            /\ progress_tasks[TaskOf(s)].completed = progress_tasks[TaskOf(s)].total

\* C4: never more than MAX_WORKERS callables are running, and when a fan-out
\* has returned the number of finished invocations is the item count.
C4_BoundedConcurrency ==
    /\ Cardinality(Running) <= MAX_WORKERS
    /\ \A s \in 1..Len(plan) :
          Returned(s) =>
             Cardinality({i \in DOMAIN pool :
                             pool[i].stage = s /\ pool[i].state = "FINISHED"})
                = Cardinality(DOMAIN distributions)

C4_Witness ==
    /\ Cardinality(DOMAIN distributions) > MAX_WORKERS
    /\ Cardinality(Running) = MAX_WORKERS
    /\ Pending # {}

\* C5: no per-item invocation starts before __list_distributions__ has
\* returned, and an invocation of a later fan-out has started only if every
\* item of the earlier fan-out was invoked and has finished.
C5_StagesInSequence ==
    /\ pc = "list" => pool = <<>>
    /\ \A j \in DOMAIN pool :
          pool[j].state # "PENDING" =>
             /\ "__list_distributions__" \in Range(called) \/ entry = "direct"
             /\ \A s \in 1..(pool[j].stage - 1) :
                   \A item \in DOMAIN distributions :
                      /\ StageEntries(s, item) # {}
                      /\ \A i \in StageEntries(s, item) : pool[i].state = "FINISHED"

C5_Witness ==
    /\ entry = "CloudFront"
    /\ Cardinality(DOMAIN distributions) >= 2
    /\ \E j \in DOMAIN pool :
          /\ pool[j].state = "RUNNING"
          /\ plan[pool[j].stage].call = "__list_tags_for_resource__"

\* C6: a resource for which is_resource_filtered returned false is never a
\* key of the catalog, in the list stage or in any later stage.
C6_FilteredNeverInCatalog ==
    \A id \in Ids : filter_result[id] = "false" => id \notin DOMAIN distributions

C6_Witness ==
    /\ pc = "done" /\ entry = "CloudFront"
    /\ \E id \in Ids : filter_result[id] = "false"
    /\ \E id \in Ids : filter_result[id] = "true" /\ id \in DOMAIN distributions
    /\ Len(pool) > 0

\* C7: once the list stage has returned, no step removes or inserts a catalog
\* key, and every record keeps its id (equal to its key) and its arn.
C7_KeysFixedAfterList ==
    [][ pc # "list" =>
          /\ DOMAIN distributions' = DOMAIN distributions
          /\ \A k \in DOMAIN distributions :
                /\ distributions[k].id = k
                /\ distributions'[k].id = distributions[k].id
                /\ distributions'[k].arn = distributions[k].arn ]_vars

C7_Witness ==
    /\ pc = "done"
    /\ \E k \in DOMAIN distributions :
          /\ client_response[k] = "ok"
          /\ distributions[k].logging_enabled
          /\ distributions[k].default_cache_config # NoneConfig
    /\ \E k \in DOMAIN distributions :
          /\ client_response[k] = "error"
          /\ distributions[k] = ListRecord(k)
          /\ \E i \in DOMAIN pool :
                /\ pool[i].item = k /\ pool[i].state = "FINISHED"
                /\ pool[i].exception = None

\* The keys the list stage leaves, from what the listing and the filter did.
ExpectedKeys ==
    IF entry = "CloudFront"
    THEN {id \in Ids : filter_result[id] \in {"true", "unfiltered"}}
    ELSE discovered

\* C8: the final catalog and the number of invocations of each per-item
\* callable are determined by the listing, the filter answers and the
\* outcomes of the calls alone: they are the same with live_display_enabled
\* True and False.
C8_ProgressIsSideChannel ==
    pc = "done" =>
       /\ DOMAIN distributions = ExpectedKeys
       /\ Len(pool) = Len(plan) * Cardinality(ExpectedKeys)
       /\ \A s \in 1..Len(plan) : \A j \in ExpectedKeys :
             Cardinality({i \in StageEntries(s, j) : pool[i].state = "FINISHED"}) = 1
       /\ \A j \in ExpectedKeys : distributions[j] = ExpectedAfter(j, Len(plan))

C8_Witness ==
    /\ pc = "done" /\ entry = "CloudFront" /\ live_display_enabled
    /\ Len(progress_tasks) = 3
    /\ progress_tasks[1].completed = 1
    /\ Cardinality(DOMAIN distributions) >= 2

\* C9: no failure of the listing, of the filter or of a per-item call leaves
\* CloudFront.__init__: the constructor is never left by an exception, it
\* can always take its next step until it has returned, and it calls the
\* three stages in order.
C9_NoFailureEscapesInit ==
    /\ pc # "raised"
    /\ pc # "done" => ENABLED Next
    /\ entry = "CloudFront" =>
          /\ \E n \in 0..3 :
                called = SubSeq(<<"__list_distributions__",
                                  "__get_distribution_config__",
                                  "__list_tags_for_resource__">>, 1, n)
          /\ pc = "done" => Len(called) = 3

C9_Witness ==
    /\ pc = "done" /\ entry = "CloudFront"
    /\ list_error
    /\ \E id \in Ids : filter_result[id] = "raise"
    /\ Failed(1) # {} /\ Failed(2) # {}

\* The record of id with the values of both enrichment stages.
EnrichedRecord(id) ==
    [ListRecord(id) EXCEPT
        !.logging_enabled = DistributionConfig(id).Logging,
        !.geo_restriction_type = DistributionConfig(id).RestrictionType,
        !.web_acl_id = DistributionConfig(id).WebACLId,
        !.default_cache_config = DistributionConfig(id).DefaultCacheBehavior,
        !.tags = <<"tags", id>>]

\* C10: the listing holds A, B, C, the filter accepts A and C, the remote
\* fails get_distribution_config for A and answers it for C: after
\* CloudFront.__init__ the catalog is {A, C}, A has its list-stage fields
\* only and C has the values of the enrichment stages.
C10_PartialEnrichmentScenario ==
    ( /\ entry = "CloudFront" /\ pc = "done"
      /\ discovered = {"A", "B", "C"}
      /\ filter_result["A"] = "true" /\ filter_result["B"] = "false"
      /\ filter_result["C"] = "true"
      /\ client_response["A"] = "error" /\ client_response["C"] = "ok" )
    => /\ DOMAIN distributions = {"A", "C"}
       /\ distributions["A"] = ListRecord("A")
       /\ distributions["C"] = EnrichedRecord("C")

\* The list stage is over and has left the catalog empty.
C11_Empty ==
    plan # <<>> /\ pc \notin {"wrapper", "list"} /\ distributions = EmptyDict

\* C11: when the list stage has left the catalog empty, every later fan-out
\* is a no-op, with progress enabled or disabled: no callable is invoked,
\* the catalog stays empty, the fan-out returns without raising (it can
\* always take its next step until the caller has returned), and its
\* progress task, if any, has total 0 and is never advanced.
C11_EmptyCatalogNoOp ==
    /\ [](C11_Empty =>
            /\ pool = <<>>
            /\ pc # "raised"
            /\ pc # "done" => ENABLED Next
            /\ pc = "done" =>
                  Len(called) = Len(plan) + (IF entry = "CloudFront" THEN 1 ELSE 0)
            /\ \A s \in 1..Len(plan) :
                  (Returned(s) /\ live_display_enabled) =>
                      /\ progress_tasks[TaskOf(s)].total = 0
                      /\ progress_tasks[TaskOf(s)].completed = 0
            /\ ~live_display_enabled => progress_tasks = <<>>)
    /\ [][C11_Empty => distributions' = EmptyDict]_vars

C11_Witness ==
    /\ pc = "done" /\ entry = "CloudFront" /\ live_display_enabled
    /\ distributions = EmptyDict /\ discovered # {}
    /\ Len(called) = 3 /\ Len(progress_tasks) = 3

\* The call through the wrapper of progress_decorator is over.
WrapperOver == pc \notin {"wrapper", "func", "list"} /\ entry # "direct"

\* C12: progress_decorator is transparent: in either progress mode the
\* wrapper returns the value the wrapped function returned or raises the
\* exception it raised, and the wrapped function is invoked exactly once
\* (and not at all before the wrapper reaches its call).
C12_WrapperTransparent ==
    /\ WrapperOver =>
          /\ wrapped.calls = 1
          /\ wrapped.func \in FuncOutcomes
          /\ wrapped.outcome = wrapped.func
    /\ ~WrapperOver => wrapped.calls = 0 /\ wrapped.outcome = NotCalled

C12_Witness ==
    /\ entry = "decorated" /\ pc = "done" /\ live_display_enabled
    /\ wrapped.func = Raises("Error") /\ wrapped.outcome = Raises("Error")

\* C13: with every started callable finishing and fair scheduling, every
\* __threading_call__ that was entered eventually returns, whatever the
\* number of items and of workers (more items than workers included); and
\* the caller's wait holds no worker: while it waits, a pending item can
\* start whenever fewer than MAX_WORKERS callables are running.
C13_BarrierTerminates ==
    /\ \A s \in 1..2 :
          (stage = s /\ pc = "threading_call") ~> Returned(s)
    /\ [](( /\ pc \in {"submit", "as_completed"}
            /\ Pending # {}
            /\ Cardinality(Running) < MAX_WORKERS) => ENABLED Workers)

C13_Witness ==
    /\ pc = "done" /\ Returned(Len(plan))
    /\ Cardinality(DOMAIN distributions) > MAX_WORKERS
    /\ \E i, j \in DOMAIN pool :
          /\ pool[i].stage = pool[j].stage /\ i # j
          /\ pool[i].exception = None /\ pool[j].exception # None

\* C14 as stated: once a fan-out has yielded every future, the error log
\* holds one entry written by __threading_call__ for each item whose
\* callable raised.
C14_HarnessLogsEachFailure ==
    \A s \in 1..Len(plan) :
        (Returned(s) \/ (s = stage /\ pc = "as_completed" /\ BarrierSatisfied)) =>
            \A i \in Failed(s) :
                [by |-> "__threading_call__", stage |-> s, item |-> pool[i].item]
                    \in error_log

\* C14: __threading_call__ discards the exception of a per-item callable
\* without a trace: it never writes an error entry, so an item whose
\* callable raised has no error entry at all; the entries of the error log
\* come from callables that caught their own failure and returned normally.
C14_HarnessDiscardsSilently ==
    /\ \A e \in error_log :
          /\ e.by # "__threading_call__"
          /\ e.stage \in 1..Len(plan) /\ e.by = plan[e.stage].call
          /\ \E i \in StageEntries(e.stage, e.item) :
                pool[i].state = "FINISHED" /\ pool[i].exception = None
    /\ \A s \in 1..Len(plan) : \A i \in Failed(s) :
          ~ \E e \in error_log : e.stage = s /\ e.item = pool[i].item

C14_Witness ==
    /\ pc = "done" /\ Returned(Len(plan))
    /\ \E i \in Failed(Len(plan)) : i \in yielded
    /\ \E i \in DOMAIN pool : pool[i].exception = None
    /\ error_log = {}

\* The list stage of CloudFront.__init__ is over.
Listed == entry = "CloudFront" /\ pc \notin {"wrapper", "list"}

\* C15: a failing page or item of the list stage is logged and the other
\* pages and items are still processed: every in-scope resource that is not
\* on the failing page and is not the failing item is in the catalog.
C15_ListFailuresContained ==
    Listed =>
       /\ listing.failed => list_error
       /\ (listing.in_scope \ listing.failing) \subseteq DOMAIN distributions

\* What the code does instead: the first failure of a page fetch or of the
\* filter ends the list stage: it is logged once, __list_distributions__
\* returns normally, and the catalog holds exactly the in-scope resources
\* listed before that failure.
ListStopsAtFirstFailure ==
    Listed =>
       /\ list_error = listing.failed
       /\ wrapped.outcome = Returns(None)
       /\ DOMAIN distributions = listing.in_scope \cap listing.before

\* The stages that have created their progress task when progress is on:
\* the decorated singular stage once the wrapper has passed add_task, and
\* every fan-out that has passed its add_task.
StagesBegun ==
    (IF entry # "direct" /\ pc # "wrapper" THEN 1 ELSE 0)
    + Cardinality({s \in 1..Len(plan) :
                     s < stage \/ (s = stage /\ pc # "threading_call")})

\* C16: with progress enabled every stage has exactly one task, created
\* before the stage's function runs or any of its items is dispatched, with
\* completed = 0 and total = the item count (1 for the decorated singular
\* stage); a task's total never changes and its completed only grows, by
\* one at a time, and never exceeds total.  With progress disabled no task
\* exists.  The mode never changes after construction.
C16_ProgressTaskStateMachine ==
    /\ [] /\ ~live_display_enabled => progress_tasks = <<>>
          /\ live_display_enabled =>
                /\ Len(progress_tasks) = StagesBegun
                /\ \A t \in DOMAIN progress_tasks :
                      /\ progress_tasks[t].completed >= 0
                      /\ progress_tasks[t].completed <= progress_tasks[t].total
                /\ (entry # "direct" /\ pc # "wrapper") => progress_tasks[1].total = 1
                /\ wrapped.calls > 0 => Len(progress_tasks) >= 1
                /\ \A s \in 1..Len(plan) :
                      TaskOf(s) \in DOMAIN progress_tasks =>
                         progress_tasks[TaskOf(s)].total =
                            Cardinality(DOMAIN distributions)
                /\ \A i \in DOMAIN pool :
                      TaskOf(pool[i].stage) \in DOMAIN progress_tasks
    /\ [][ /\ live_display_enabled' = live_display_enabled
           /\ Len(progress_tasks') \in {Len(progress_tasks), Len(progress_tasks) + 1}
           /\ \A t \in DOMAIN progress_tasks :
                 /\ progress_tasks'[t].total = progress_tasks[t].total
                 /\ progress_tasks'[t].completed - progress_tasks[t].completed
                       \in {0, 1}
           /\ \A t \in (DOMAIN progress_tasks') \ (DOMAIN progress_tasks) :
                 progress_tasks'[t].completed = 0 ]_vars

C16_Witness ==
    /\ pc = "done" /\ entry = "direct" /\ live_display_enabled
    /\ Len(plan) = 2 /\ Len(progress_tasks) = 2
    /\ progress_tasks[1].total = 3 /\ progress_tasks[1].completed = 3
    /\ progress_tasks[2].total = 3 /\ progress_tasks[2].completed = 3

\* C17: a later fan-out (the tags stage) is attempted for every entry of the
\* catalog, whether the earlier stage (the config stage) enriched the entry,
\* failed inside its callable or raised: once the later fan-out has
\* returned, every resource the list stage inserted is still in the catalog
\* and has exactly one finished work item of that fan-out.
C17_LaterStageAttemptedForAll ==
    \A s \in 2..Len(plan) :
        Returned(s) =>
           \A id \in ExpectedKeys :
              /\ id \in DOMAIN distributions
              /\ Cardinality(StageEntries(s - 1, id)) = 1
              /\ Cardinality({i \in StageEntries(s, id) :
                                pool[i].state = "FINISHED"}) = 1

C17_Witness ==
    /\ pc = "done" /\ entry = "direct" /\ Len(plan) = 2
    /\ plan[2].call = "__list_tags_for_resource__"
    /\ \E a, b \in DOMAIN distributions :
          /\ client_response[a] = "ok" /\ distributions[a].logging_enabled
          /\ client_response[b] = "error" /\ ~distributions[b].logging_enabled
          /\ \A id \in {a, b} : \E i \in StageEntries(2, id) : pool[i].state = "FINISHED"

\* C18: within one fan-out the dispatched items are pairwise distinct keys
\* of the catalog, and a finishing callable changes no entry but the one
\* keyed by its own item: two workers never write the same entry.
C18_WorkersWriteOwnEntry ==
    /\ [](\A i, j \in DOMAIN pool :
             (i # j /\ pool[i].stage = pool[j].stage) =>
                 /\ pool[i].item # pool[j].item
                 /\ pool[i].item \in DOMAIN distributions)
    /\ [][pc \notin {"wrapper", "list"} =>
             \A k \in DOMAIN distributions :
                 (k \notin DOMAIN distributions' \/ distributions'[k] # distributions[k]) =>
                     \E i \in Running :
                        /\ pool[i].item = k
                        /\ pool'[i].state = "FINISHED"
                        /\ \A j \in (DOMAIN pool) \ {i} : pool'[j] = pool[j]]_vars

C18_Witness ==
    \E i, j \in DOMAIN pool :
       /\ pool[i].stage = pool[j].stage /\ pool[i].item # pool[j].item
       /\ pool[i].state = "RUNNING"
       /\ pool[j].state = "FINISHED" /\ pool[j].exception = None
       /\ plan[pool[i].stage].call = "__get_distribution_config__"
       /\ distributions[pool[j].item] # ListRecord(pool[j].item)
       /\ distributions[pool[i].item] = ListRecord(pool[i].item)

\* C19: with progress enabled, progress_decorator creates a task of total 1
\* before the wrapped function runs and advances it by exactly one when the
\* function completes, whether it returned or raised: once the call through
\* the wrapper is over the task has completed = total = 1.
C19_WrapperTaskAlwaysCompleted ==
    (live_display_enabled /\ entry # "direct") =>
       /\ pc \in {"func", "list"} =>
             /\ wrapped.calls = 0
             /\ progress_tasks = <<[description |-> progress_tasks[1].description,
                                    total |-> 1, completed |-> 0]>>
       /\ WrapperOver =>
             /\ progress_tasks[1].total = 1
             /\ progress_tasks[1].completed = 1

\* The config fan-out, called with positional client and region so that the
\* body of __get_distribution_config__ runs, has returned.
ConfigReturned ==
    /\ plan # <<>> /\ plan[1].call = "__get_distribution_config__"
    /\ BindOK(plan[1].call, plan[1].nargs, plan[1].kwnames)
    /\ Returned(1)

\* C20: __get_distribution_config__ is not atomic.  When the remote call
\* succeeds and building the default cache configuration fails, the record
\* keeps the logging_enabled, geo_restriction_type and web_acl_id of the
\* response and default_cache_config stays unset; a failure between the
\* writes keeps the writes before it; the record is left with its
\* list-stage fields only exactly when the remote call (or the first write)
\* failed.  (The response's Logging.Enabled is TRUE, so a written
\* logging_enabled differs from the list stage's default.)
C20_EnrichmentNotAtomic ==
    ConfigReturned =>
       \A id \in DOMAIN distributions :
          LET cfg == DistributionConfig(id)
              rec == distributions[id]
              r == client_response[id]
          IN  /\ r = "bad_cache" =>
                    rec = [ListRecord(id) EXCEPT
                              !.logging_enabled = cfg.Logging,
                              !.geo_restriction_type = cfg.RestrictionType,
                              !.web_acl_id = cfg.WebACLId]
              /\ r = "bad_cache" => rec.default_cache_config = NoneConfig
              /\ r = "bad_geo" =>
                    rec = [ListRecord(id) EXCEPT !.logging_enabled = cfg.Logging]
              /\ r = "ok" => rec.default_cache_config = cfg.DefaultCacheBehavior
              /\ (rec = ListRecord(id)) <=> (r = "error")

C20_Witness ==
    /\ ConfigReturned /\ pc = "done"
    /\ \E a, b \in DOMAIN distributions :
          /\ client_response[a] = "bad_cache"
          /\ distributions[a].logging_enabled
          /\ distributions[a].web_acl_id = DistributionConfig(a).WebACLId
          /\ distributions[a].default_cache_config = NoneConfig
          /\ client_response[b] = "error"
          /\ distributions[b] = ListRecord(b)

====
